---- MODULE Spec2Model ----
(***************************************************************************)
(* OrgSpaceAPI: a directory of organizations, buildings and a taxonomy of  *)
(* activities behind an HTTP API (FastAPI handlers over SQLAlchemy).       *)
(*                                                                         *)
(* The state is the relational store (one variable per table of            *)
(* src/src/models.py) plus the request being served and its response.      *)
(* Every handler is one action: it takes the store as the request finds    *)
(* it, runs the whole body of the handler (queries, flushes, commits,       *)
(* rollback in the except branch) and leaves the store and the response.   *)
(* Deliver hands the response to the client and makes the service idle.    *)
(*                                                                         *)
(* Handlers are those of the router package src/src/api; where main.py's   *)
(* older copy of a handler behaves differently the request carries the     *)
(* application ("api" or "main") that serves it.                           *)
(***************************************************************************)
EXTENDS Integers, Sequences, FiniteSets, TLC

VARIABLES
    buildings,                \* table buildings: rows [id, address]
    organizations,            \* table organizations: rows [id, name, building_id]
    phone_numbers,            \* table phone_numbers: per organization_id, its rows' numbers in id order
    activities,               \* table activities: rows [id, name, parent_id, level]
    organization_activities,  \* table organization_activities: rows [organization_id, activity_id]
    req,                      \* the request being served (Idle when none)
    resp                      \* the response to req (NoResponse while idle)

store == <<buildings, organizations, phone_numbers, activities, organization_activities>>
vars == <<buildings, organizations, phone_numbers, activities, organization_activities, req, resp>>

(***************************************************************************)
(* Bounds of the model.                                                    *)
(***************************************************************************)
MaxBuildings == 2       \* building ids 1..MaxBuildings
MaxOrganizations == 2   \* organization ids 1..MaxOrganizations
MaxActivities == 3      \* activity ids 1..MaxActivities
MaxPhones == 1          \* longest phone_numbers list of a payload
MaxActivityIds == 2     \* longest activity_ids list of a payload

(***************************************************************************)
(* Values.                                                                 *)
(***************************************************************************)
None == 0               \* Python None / SQL NULL in an integer column (ids start at 1)
NoString == "None"      \* Python None in a string field of a payload

HTTP_200_OK == 200
HTTP_201_CREATED == 201
HTTP_400_BAD_REQUEST == 400
HTTP_404_NOT_FOUND == 404
HTTP_500_INTERNAL_SERVER_ERROR == 500

Apps == {"api", "main"}

BuildingIds == 1..MaxBuildings
OrganizationIds == 1..MaxOrganizations
ActivityIds == 1..MaxActivities

ActivityNames == <<"Food", "Bakery", "Bread", "Meat", "Dairy", "Cheese", "Fish">>
Addresses == <<"Lenina 1", "Mira 2", "Sadovaya 3", "Tverskaya 4", "Arbat 5">>
AddressInputs == {Addresses[i] : i \in 1..(MaxBuildings + 1)}

ActivityNameInputs == {ActivityNames[i] : i \in 1..(MaxActivities + 1)}

Max(S) == IF S = {} THEN 0 ELSE CHOOSE m \in S : \A x \in S : x <= m

\* autoincrement primary key: one above the largest id of the table
NextId(table) == Max({r.id : r \in table}) + 1

(***************************************************************************)
(* Outcome of a handler body: a value it returns, or an exception.         *)
(***************************************************************************)
Return(status, body) == [raised |-> FALSE, status |-> status, body |-> body]
Raise(status) == [raised |-> TRUE, status |-> status, body |-> <<>>]

\* src/src/utils.py: whatever the exception was, the client is answered 500
\* (main.py returns the same status as a JSONResponse)
handle_exception(e) ==
    [status |-> HTTP_500_INTERNAL_SERVER_ERROR, body |-> <<>>]

\* try: ... except Exception as e: await db.rollback(); return handle_exception(e)
\* HTTPException is an Exception, so the handler's own raise ends here too
Response(outcome) ==
    IF outcome.raised THEN handle_exception(outcome)
    ELSE [status |-> outcome.status, body |-> outcome.body]

Idle == [op |-> "idle"]
NoResponse == [status |-> None, body |-> <<>>]

(***************************************************************************)
(* Activities.                                                             *)
(***************************************************************************)
ActivityById(id) == {a \in activities : a.id = id}
ActivityByName(name) == {a \in activities : a.name = name}

\* the new row given a level, so that the store accepts it
NewActivity_WithLevel(name, parent_id) ==
    [id |-> NextId(activities), name |-> name, parent_id |-> parent_id, level |-> 1]

\* Activity(name=name, parent_id=parent_id): level is not among the arguments
\* and the column has no default, so the new row carries NULL in it
NewActivity(name, parent_id) ==
    [id |-> NextId(activities), name |-> name, parent_id |-> parent_id, level |-> None]

\* INSERT INTO activities: level and name are NOT NULL, name is unique
ActivityInsertAccepted(row) ==
    /\ row.level # None
    /\ row.name # NoString
    /\ \A a \in activities : a.name # row.name

\* the body of create_activity up to the commit
CreateActivityOutcome(app, name, parent_id) ==
    LET parent == ActivityById(parent_id)
        parent_level == (CHOOSE p \in parent : TRUE).level
    IN  IF app = "api" /\ parent_id # None /\ parent = {}
        THEN Raise(HTTP_400_BAD_REQUEST)
        ELSE IF app = "api" /\ parent_id # None /\ parent_level # None /\ parent_level >= 3
        THEN Raise(HTTP_400_BAD_REQUEST)
        ELSE IF app = "main" /\ parent_id # None /\ parent # {} /\ parent_level >= 3
        THEN Return(HTTP_400_BAD_REQUEST, <<>>)
        ELSE IF ~ActivityInsertAccepted(NewActivity(name, parent_id))
        THEN Raise(HTTP_500_INTERNAL_SERVER_ERROR)   \* IntegrityError at commit
        ELSE Return(IF app = "api" THEN HTTP_201_CREATED ELSE HTTP_200_OK, <<>>)

create_activity(app, name, parent_id) ==
    LET outcome == CreateActivityOutcome(app, name, parent_id)
    IN  /\ req' = [op |-> "create_activity", app |-> app, name |-> name, parent_id |-> parent_id]
        /\ resp' = Response(outcome)
        /\ activities' =
              IF ~outcome.raised /\ outcome.status \in {HTTP_200_OK, HTTP_201_CREATED}
              THEN activities \cup {NewActivity(name, parent_id)}
              ELSE activities
        /\ UNCHANGED <<buildings, organizations, phone_numbers, organization_activities>>

\* the delete flushed whatever refers to the activity
ActivityDeleteFlushes_Always(activity) == TRUE

\* Activity.organizations is a one-to-many relationship without delete cascade:
\* the flush of a deleted Activity sets activity_id of its OrganizationActivity
\* rows to NULL, and activity_id is part of their primary key (AssertionError)
ActivityDeleteFlushes(activity) ==
    \A oa \in organization_activities : oa.activity_id # activity.id

\* DELETE FROM activities of a row that other rows name as their parent: the
\* store does not refuse it, cascade it, or null the children's parent_id
ParentDeleteAccepted(activity) == TRUE

DeleteActivityOutcome(activity_id) ==
    LET found == ActivityById(activity_id)
    IN  IF found = {} THEN Raise(HTTP_404_NOT_FOUND)
        ELSE IF ~ActivityDeleteFlushes(CHOOSE a \in found : TRUE)
        THEN Raise(HTTP_500_INTERNAL_SERVER_ERROR)   \* AssertionError at commit
        ELSE IF ~ParentDeleteAccepted(CHOOSE a \in found : TRUE)
        THEN Raise(HTTP_500_INTERNAL_SERVER_ERROR)   \* IntegrityError at commit
        ELSE Return(HTTP_200_OK, <<>>)

delete_activity(app, activity_id) ==
    LET outcome == DeleteActivityOutcome(activity_id)
    IN  /\ req' = [op |-> "delete_activity", app |-> app, activity_id |-> activity_id]
        /\ resp' = Response(outcome)
        /\ activities' =
              IF outcome.raised THEN activities
              ELSE activities \ ActivityById(activity_id)
        /\ UNCHANGED <<buildings, organizations, phone_numbers, organization_activities>>

(***************************************************************************)
(* Buildings.  A row is [id, address]; latitude and longitude are carried  *)
(* by no handler modelled here and are left out.                           *)
(***************************************************************************)
BuildingById(id) == {b \in buildings : b.id = id}
BuildingByAddress(address) == {b \in buildings : b.address = address}

\* the body of create_building up to the commit
CreateBuildingOutcome(address) ==
    IF BuildingByAddress(address) # {}
    THEN Raise(HTTP_400_BAD_REQUEST)
    ELSE Return(HTTP_201_CREATED, <<>>)

create_building(address) ==
    LET outcome == CreateBuildingOutcome(address)
    IN  /\ req' = [op |-> "create_building", address |-> address]
        /\ resp' = Response(outcome)
        /\ buildings' =
              IF outcome.raised THEN buildings
              ELSE buildings \cup {[id |-> NextId(buildings), address |-> address]}
        /\ UNCHANGED <<organizations, phone_numbers, activities, organization_activities>>

\* UPDATE buildings SET address: address is unique
BuildingUpdateAccepted(building_id, address) ==
    \A b \in buildings : b.address = address => b.id = building_id

UpdateBuildingOutcome(building_id, address) ==
    IF BuildingById(building_id) = {}
    THEN Raise(HTTP_404_NOT_FOUND)
    ELSE IF ~BuildingUpdateAccepted(building_id, address)
    THEN Raise(HTTP_500_INTERNAL_SERVER_ERROR)   \* IntegrityError at commit
    ELSE Return(HTTP_200_OK, <<>>)

update_building(building_id, address) ==
    LET outcome == UpdateBuildingOutcome(building_id, address)
    IN  /\ req' = [op |-> "update_building", building_id |-> building_id, address |-> address]
        /\ resp' = Response(outcome)
        /\ buildings' =
              IF outcome.raised THEN buildings
              ELSE (buildings \ BuildingById(building_id))
                      \cup {[id |-> building_id, address |-> address]}
        /\ UNCHANGED <<organizations, phone_numbers, activities, organization_activities>>

\* the delete flushed whatever refers to the building
BuildingDeleteFlushes_Always(building_id) == TRUE

\* Building.organizations is a one-to-many relationship without delete cascade:
\* the flush of a deleted Building sets building_id of its organizations to
\* NULL, and organizations.building_id is NOT NULL (IntegrityError)
BuildingDeleteFlushes(building_id) ==
    \A o \in organizations : o.building_id # building_id

DeleteBuildingOutcome(building_id) ==
    IF BuildingById(building_id) = {}
    THEN Raise(HTTP_404_NOT_FOUND)
    ELSE IF ~BuildingDeleteFlushes(building_id)
    THEN Raise(HTTP_500_INTERNAL_SERVER_ERROR)
    ELSE Return(HTTP_200_OK, <<>>)

delete_building(building_id) ==
    LET outcome == DeleteBuildingOutcome(building_id)
    IN  /\ req' = [op |-> "delete_building", building_id |-> building_id]
        /\ resp' = Response(outcome)
        /\ buildings' =
              IF outcome.raised THEN buildings
              ELSE buildings \ BuildingById(building_id)
        /\ UNCHANGED <<organizations, phone_numbers, activities, organization_activities>>

(***************************************************************************)
(* Organizations, their phone numbers and their activity associations.     *)
(***************************************************************************)
OrganizationById(id) == {o \in organizations : o.id = id}
OrganizationByName(name) == {o \in organizations : o.name = name}
AssociationsOf(org_id) == {oa \in organization_activities : oa.organization_id = org_id}

\* an Optional[List[...]] field of a payload
NoList == [given |-> FALSE, items |-> <<>>]
Some(items) == [given |-> TRUE, items |-> items]

\* phone strings a client can send: an E.164 number, the same number in its
\* national writing, and a string that is no phone number
E164Phone == "+79991234567"
NationalPhone == "8 999 123-45-67"
NotAPhone == "abc"
RawPhones == {E164Phone, NationalPhone, NotAPhone}
FalseSentinel == "False"

\* phonenumbers.parse(number, "RU") raises NumberParseException
Parseable(number) == number # NotAPhone
\* phonenumbers.format_number(parsed, E164)
FormatE164(number) == IF number = NationalPhone THEN E164Phone ELSE number

\* PhoneNumber.validate_number: the E.164 form, or False when the parse fails
validate_number(number) ==
    IF Parseable(number) THEN FormatE164(number) ELSE FalseSentinel

\* PhoneNumber(number=phone.number, organization_id=...) for every phone of the
\* payload (PhoneNumberModel of src/src/schemas.py validates nothing: its
\* field_validator is hidden under classmethod)
NewPhoneNumbers(phones) == [i \in 1..Len(phones) |-> validate_number(phones[i])]

\* number is a String column: whether the driver binds the Python bool False
\* to it or refuses the statement depends on the engine
BindOutcomes(numbers) ==
    IF \E i \in 1..Len(numbers) : numbers[i] = FalseSentinel
    THEN {TRUE, FALSE}
    ELSE {TRUE}

\* the ids of the payload that resolve to an Activity, in payload order
Resolvable(ids) == SelectSeq(ids, LAMBDA a : ActivityById(a) # {})

\* OrganizationActivity(organization_id, activity_id) for each resolvable id
NewAssociations(org_id, ids) ==
    {[organization_id |-> org_id, activity_id |-> Resolvable(ids)[i]] :
        i \in 1..Len(Resolvable(ids))}

\* INSERT INTO organization_activities: (organization_id, activity_id) is the
\* primary key, so two new rows for one pair, or a new row for a kept pair,
\* are refused (IntegrityError)
AssociationsInsertAccepted(org_id, ids, kept) ==
    /\ \A i, j \in 1..Len(Resolvable(ids)) :
          Resolvable(ids)[i] = Resolvable(ids)[j] => i = j
    /\ NewAssociations(org_id, ids) \cap kept = {}

\* create_organization: the organization is committed first, its phone
\* numbers and associations in a second transaction
create_organization(name, building_id, phones, ids, bind_ok) ==
    LET new_organization ==
            [id |-> NextId(organizations), name |-> name, building_id |-> building_id]
        numbers == NewPhoneNumbers(phones)
        second_commit ==
            /\ bind_ok
            /\ AssociationsInsertAccepted(new_organization.id, ids, organization_activities)
    IN  /\ req' = [op |-> "create_organization", name |-> name, building_id |-> building_id,
                   phone_numbers |-> phones, activity_ids |-> ids]
        /\ IF OrganizationByName(name) # {}
           THEN /\ resp' = Response(Raise(HTTP_400_BAD_REQUEST))
                /\ UNCHANGED <<organizations, phone_numbers, organization_activities>>
           ELSE IF BuildingById(building_id) = {}
           THEN /\ resp' = Response(Return(HTTP_404_NOT_FOUND, <<>>))
                /\ UNCHANGED <<organizations, phone_numbers, organization_activities>>
           ELSE /\ organizations' = organizations \cup {new_organization}
                /\ IF second_commit
                   THEN /\ phone_numbers' =
                              [phone_numbers EXCEPT ![new_organization.id] = @ \o numbers]
                        /\ organization_activities' =
                              organization_activities
                                 \cup NewAssociations(new_organization.id, ids)
                        /\ resp' = Response(Return(HTTP_201_CREATED, <<>>))
                   ELSE /\ resp' = Response(Raise(HTTP_500_INTERNAL_SERVER_ERROR))
                        /\ UNCHANGED <<phone_numbers, organization_activities>>
        /\ UNCHANGED <<buildings, activities>>

\* the name assigned whether or not the payload carries one
UpdatedName_Unguarded(organization, name) == name

\* if organization.name is not None: existing_organization.name = organization.name
UpdatedName(organization, name) ==
    IF name # NoString THEN name ELSE organization.name

\* if organization.building_id is not None: ... existing_organization.building_id = ...
UpdatedBuildingId(organization, building_id) ==
    IF building_id # None THEN building_id ELSE organization.building_id

\* if organization.phone_numbers is not None: delete every row, add the new ones
UpdatedPhoneNumbers(existing, phones) ==
    IF phones.given THEN NewPhoneNumbers(phones.items) ELSE existing

\* if organization.activity_ids is not None: the rows of the organization that
\* stay after the deletes
KeptAssociations(org_id, ids) ==
    IF ids.given THEN organization_activities \ AssociationsOf(org_id)
    ELSE organization_activities

UpdatedAssociations(org_id, ids) ==
    IF ids.given
    THEN KeptAssociations(org_id, ids) \cup NewAssociations(org_id, ids.items)
    ELSE organization_activities

\* the missing building answered by a returned 400, without raise and rollback
UpdateOrganizationOutcome_Returned(org_id, name, building_id, phones, ids, bind_ok) ==
    IF OrganizationById(org_id) = {}
    THEN Raise(HTTP_404_NOT_FOUND)
    ELSE IF building_id # None /\ BuildingById(building_id) = {}
    THEN Return(HTTP_400_BAD_REQUEST, <<>>)
    ELSE Return(HTTP_200_OK, <<>>)

\* the body of update_organization up to the commit
UpdateOrganizationOutcome(org_id, name, building_id, phones, ids, bind_ok) ==
    IF OrganizationById(org_id) = {}
    THEN Raise(HTTP_404_NOT_FOUND)
    ELSE IF building_id # None /\ BuildingById(building_id) = {}
    THEN Raise(HTTP_400_BAD_REQUEST)
    ELSE IF phones.given /\ ~bind_ok
    THEN Raise(HTTP_500_INTERNAL_SERVER_ERROR)   \* DBAPIError at commit
    ELSE IF ids.given
            /\ ~AssociationsInsertAccepted(org_id, ids.items, KeptAssociations(org_id, ids))
    THEN Raise(HTTP_500_INTERNAL_SERVER_ERROR)   \* IntegrityError at commit
    ELSE Return(HTTP_200_OK, <<>>)

update_organization(org_id, name, building_id, phones, ids, bind_ok) ==
    LET outcome == UpdateOrganizationOutcome(org_id, name, building_id, phones, ids, bind_ok)
    IN  /\ req' = [op |-> "update_organization", org_id |-> org_id, name |-> name,
                   building_id |-> building_id, phone_numbers |-> phones,
                   activity_ids |-> ids]
        /\ resp' = Response(outcome)
        /\ IF outcome.raised
           THEN UNCHANGED <<organizations, phone_numbers, organization_activities>>
           ELSE LET existing_organization == CHOOSE o \in OrganizationById(org_id) : TRUE
                IN  /\ organizations' =
                          (organizations \ {existing_organization}) \cup
                             {[id |-> org_id,
                               name |-> UpdatedName(existing_organization, name),
                               building_id |->
                                   UpdatedBuildingId(existing_organization, building_id)]}
                    /\ phone_numbers' =
                          [phone_numbers EXCEPT
                              ![org_id] = UpdatedPhoneNumbers(@, phones)]
                    /\ organization_activities' = UpdatedAssociations(org_id, ids)
        /\ UNCHANGED <<buildings, activities>>

\* Organization.activities is a one-to-many relationship without delete
\* cascade: the flush of a deleted Organization sets organization_id of its
\* OrganizationActivity rows to NULL, and organization_id is part of their
\* primary key (AssertionError)
OrganizationDeleteFlushes(org_id) == AssociationsOf(org_id) = {}

\* Organization.phone_numbers has cascade="all, delete-orphan"
PhoneNumbersAfterDelete(org_id) == [phone_numbers EXCEPT ![org_id] = <<>>]

DeleteOrganizationOutcome(org_id) ==
    IF OrganizationById(org_id) = {}
    THEN Raise(HTTP_404_NOT_FOUND)
    ELSE IF ~OrganizationDeleteFlushes(org_id)
    THEN Raise(HTTP_500_INTERNAL_SERVER_ERROR)
    ELSE Return(HTTP_200_OK, <<>>)

delete_organization(org_id) ==
    LET outcome == DeleteOrganizationOutcome(org_id)
    IN  /\ req' = [op |-> "delete_organization", org_id |-> org_id]
        /\ resp' = Response(outcome)
        /\ IF outcome.raised
           THEN UNCHANGED <<organizations, phone_numbers>>
           ELSE /\ organizations' = organizations \ OrganizationById(org_id)
                /\ phone_numbers' = PhoneNumbersAfterDelete(org_id)
        /\ UNCHANGED <<buildings, activities, organization_activities>>

\* GET /organizations/{org_id}/: name, address of the building (None when it is
\* missing) and the numbers of the organization's phone rows
get_organization(org_id) ==
    /\ req' = [op |-> "get_organization", org_id |-> org_id]
    /\ resp' =
          IF OrganizationById(org_id) = {}
          THEN Response(Return(HTTP_404_NOT_FOUND, <<>>))
          ELSE LET organization == CHOOSE o \in OrganizationById(org_id) : TRUE
                   address == BuildingById(organization.building_id)
               IN  Response(Return(HTTP_200_OK,
                      [id |-> organization.id,
                       name |-> organization.name,
                       address |-> IF address = {} THEN NoString
                                   ELSE (CHOOSE b \in address : TRUE).address,
                       phone_numbers |-> phone_numbers[org_id]]))
    /\ UNCHANGED store

(***************************************************************************)
(* Subtree search.                                                         *)
(***************************************************************************)
\* the rows of a result set as a list (no ORDER BY: taken in id order)
RECURSIVE ScalarsAll(_)
ScalarsAll(rows) ==
    IF rows = {} THEN <<>>
    ELSE LET first == CHOOSE r \in rows : \A x \in rows : r.id <= x.id
         IN  <<first>> \o ScalarsAll(rows \ {first})

\* select(Activity).where(Activity.parent_id == activity.id)
SubActivities(activity) == {a \in activities : a.parent_id = activity.id}

\* find_subactivities(activity, level): what the call appends to
\* activities_to_search, each entry with the level argument of the call that
\* appended it
RECURSIVE find_subactivities(_, _)
RECURSIVE find_subactivities_each(_, _)
find_subactivities_each(sub_activities_list, level) ==
    IF sub_activities_list = <<>> THEN <<>>
    ELSE find_subactivities(Head(sub_activities_list), level)
            \o find_subactivities_each(Tail(sub_activities_list), level)

find_subactivities(activity, level) ==
    <<[activity |-> activity, level |-> level]>>
       \o (IF level <= 3
           THEN find_subactivities_each(ScalarsAll(SubActivities(activity)), level + 1)
           ELSE <<>>)

\* the named activity alone, without its sub-activities
ActivitiesToSearch_RootOnly(activity_name) ==
    IF ActivityByName(activity_name) = {} THEN <<>>
    ELSE <<[activity |-> CHOOSE a \in ActivityByName(activity_name) : TRUE, level |-> 1]>>

\* activities_to_search after the traversal from the activity of that name
ActivitiesToSearch(activity_name) ==
    IF ActivityByName(activity_name) = {} THEN <<>>
    ELSE find_subactivities(CHOOSE a \in ActivityByName(activity_name) : TRUE, 1)

\* the OrganizationActivity rows of the activities searched
SearchedAssociations(activity_name) ==
    LET searched == ActivitiesToSearch(activity_name)
    IN  {oa \in organization_activities :
            \E i \in 1..Len(searched) : oa.activity_id = searched[i].activity.id}

\* organizations.update(org.organization for org in orgs): a set of the
\* Organization objects of the rows
SearchedOrganizations(activity_name) ==
    UNION {OrganizationById(oa.organization_id) : oa \in SearchedAssociations(activity_name)}

RowNames(rows) == [i \in 1..Len(rows) |-> rows[i].name]

\* the orders in which iterating a Python set of these rows can yield them
SetOrders(rows) ==
    {order \in [1..Cardinality(rows) -> rows] :
        \A i, j \in 1..Cardinality(rows) : order[i] = order[j] => i = j}

search_organizations_by_activity(activity_name) ==
    /\ req' = [op |-> "search_organizations_by_activity", activity_name |-> activity_name]
    /\ IF \E oa \in SearchedAssociations(activity_name) :
             OrganizationById(oa.organization_id) = {}
       THEN resp' = Response(Raise(HTTP_500_INTERNAL_SERVER_ERROR))   \* None.name
       ELSE IF SearchedOrganizations(activity_name) = {}
       THEN resp' = Response(Return(HTTP_404_NOT_FOUND, <<>>))
       ELSE \E order \in SetOrders(SearchedOrganizations(activity_name)) :
               resp' = Response(Return(HTTP_200_OK, RowNames(order)))
    /\ UNCHANGED store

(***************************************************************************)
(* Lookup by building address.                                             *)
(***************************************************************************)
\* every organization, whatever its building
OrganizationsOfBuilding_Any(building) == organizations

\* select(Organization).where(Organization.building_id == building.id)
OrganizationsOfBuilding(building) ==
    {o \in organizations : o.building_id = building.id}

\* the rows come back in the order the store yields them (no ORDER BY)
get_organizations_by_building_address(address) ==
    /\ req' = [op |-> "get_organizations_by_building_address", address |-> address]
    /\ IF BuildingByAddress(address) = {}
       THEN resp' = Response(Return(HTTP_404_NOT_FOUND, <<>>))
       ELSE LET building == CHOOSE b \in BuildingByAddress(address) : TRUE
            IN  IF OrganizationsOfBuilding(building) = {}
                THEN resp' = Response(Return(HTTP_404_NOT_FOUND, <<>>))
                ELSE \E order \in SetOrders(OrganizationsOfBuilding(building)) :
                        resp' = Response(Return(HTTP_200_OK, RowNames(order)))
    /\ UNCHANGED store

(***************************************************************************)
(* The service: one request at a time, answered before the next.           *)
(***************************************************************************)
CreateActivity ==
    /\ req.op = "idle"
    /\ \E app \in Apps, name \in ActivityNameInputs, parent_id \in {None} \cup 1..(MaxActivities + 1) :
          create_activity(app, name, parent_id)

DeleteActivity ==
    /\ req.op = "idle"
    /\ \E app \in Apps, activity_id \in 1..(MaxActivities + 1) :
          delete_activity(app, activity_id)

CreateBuilding ==
    /\ req.op = "idle"
    /\ \E address \in AddressInputs :
          /\ CreateBuildingOutcome(address).raised \/ NextId(buildings) <= MaxBuildings
          /\ create_building(address)

UpdateBuilding ==
    /\ req.op = "idle"
    /\ \E building_id \in 1..(MaxBuildings + 1), address \in AddressInputs :
          update_building(building_id, address)

DeleteBuilding ==
    /\ req.op = "idle"
    /\ \E building_id \in 1..(MaxBuildings + 1) : delete_building(building_id)

OrganizationNames == {"Bread Co", "Meat Co"}

\* the lists of at most n elements of S
RECURSIVE ListsUpTo(_, _)
ListsUpTo(S, n) ==
    IF n = 0 THEN {<<>>}
    ELSE LET shorter == ListsUpTo(S, n - 1)
         IN  shorter \cup {Append(l, x) : l \in shorter, x \in S}

PhoneLists == ListsUpTo(RawPhones, MaxPhones)
\* the ids of the stored activities and one id that resolves to nothing
ActivityIdLists == ListsUpTo({a.id : a \in activities} \cup {NextId(activities)}, MaxActivityIds)
BuildingIdInputs == {b.id : b \in buildings} \cup {NextId(buildings)}

CreateOrganization ==
    /\ req.op = "idle"
    /\ NextId(organizations) <= MaxOrganizations
    /\ \E name \in OrganizationNames, building_id \in BuildingIdInputs,
          phones \in PhoneLists, ids \in ActivityIdLists :
          \E bind_ok \in BindOutcomes(NewPhoneNumbers(phones)) :
             create_organization(name, building_id, phones, ids, bind_ok)

UpdateOrganization ==
    /\ req.op = "idle"
    /\ \E org_id \in OrganizationIds,
          name \in OrganizationNames \cup {NoString},
          building_id \in BuildingIdInputs \cup {None},
          phones \in {Some(l) : l \in PhoneLists} \cup {NoList},
          ids \in {Some(l) : l \in ActivityIdLists} \cup {NoList} :
          \E bind_ok \in BindOutcomes(NewPhoneNumbers(phones.items)) :
             update_organization(org_id, name, building_id, phones, ids, bind_ok)

DeleteOrganization ==
    /\ req.op = "idle"
    /\ \E org_id \in OrganizationIds : delete_organization(org_id)

GetOrganization ==
    /\ req.op = "idle"
    /\ \E org_id \in OrganizationIds : get_organization(org_id)

GetOrganizationsByBuildingAddress ==
    /\ req.op = "idle"
    /\ \E address \in AddressInputs : get_organizations_by_building_address(address)

SearchOrganizationsByActivity ==
    /\ req.op = "idle"
    /\ \E activity_name \in ActivityNameInputs :
          search_organizations_by_activity(activity_name)

Deliver ==
    /\ req.op # "idle"
    /\ resp # NoResponse
    /\ req' = Idle
    /\ resp' = NoResponse
    /\ UNCHANGED store

(***************************************************************************)
(* Stores the service can be started on.  The activities table cannot be   *)
(* filled through the API (see NewActivity), so its rows are those loaded  *)
(* into the store directly: any forest with consistent levels.             *)
(***************************************************************************)
ActivityRow(i, parent_id, level) ==
    [id |-> i, name |-> ActivityNames[i], parent_id |-> parent_id, level |-> level]

LevelsConsistent(S, par, lvl) ==
    \A i \in S : IF par[i] = None THEN lvl[i] = 1 ELSE lvl[i] = lvl[par[i]] + 1

SeedActivityTables ==
    UNION { { {ActivityRow(i, pl[1][i], pl[2][i]) : i \in S} :
                pl \in {x \in [S -> {None} \cup S] \X [S -> 1..3] :
                           LevelsConsistent(S, x[1], x[2])} } :
            S \in SUBSET ActivityIds }

SeedBuilding == [id |-> 1, address |-> "Lenina 1"]
SeedOrganization == [id |-> 1, name |-> "Bread Co", building_id |-> 1]
NoPhones == [o \in OrganizationIds |-> <<>>]

(***************************************************************************)
(* SpecActivities: the activity routes over a seeded taxonomy, with one    *)
(* organization linked to some of the activities.                          *)
(***************************************************************************)
InitActivities ==
    /\ buildings = {SeedBuilding}
    /\ organizations = {SeedOrganization}
    /\ phone_numbers = NoPhones
    /\ activities \in SeedActivityTables
    /\ organization_activities \in
          SUBSET {[organization_id |-> 1, activity_id |-> a.id] : a \in activities}
    /\ req = Idle
    /\ resp = NoResponse

NextActivities ==
    \/ CreateActivity
    \/ DeleteActivity
    \/ Deliver

SpecActivities == InitActivities /\ [][NextActivities]_vars

(***************************************************************************)
(* SpecBuildings: the building routes, with or without an organization in  *)
(* the seeded building.                                                    *)
(***************************************************************************)
InitBuildings ==
    /\ buildings = {SeedBuilding}
    /\ organizations \in SUBSET {SeedOrganization}
    /\ phone_numbers = NoPhones
    /\ activities = {}
    /\ organization_activities = {}
    /\ req = Idle
    /\ resp = NoResponse

NextBuildings ==
    \/ CreateBuilding
    \/ UpdateBuilding
    \/ DeleteBuilding
    \/ Deliver

SpecBuildings == InitBuildings /\ [][NextBuildings]_vars

(***************************************************************************)
(* SpecOrganizations: the organization routes over two seeded buildings    *)
(* and one seeded activity.                                                *)
(***************************************************************************)
InitOrganizations ==
    /\ buildings = {SeedBuilding, [id |-> 2, address |-> "Mira 2"]}
    /\ organizations = {}
    /\ phone_numbers = NoPhones
    /\ activities = {ActivityRow(1, None, 1)}
    /\ organization_activities = {}
    /\ req = Idle
    /\ resp = NoResponse

NextOrganizations ==
    \/ CreateOrganization
    \/ UpdateOrganization
    \/ DeleteOrganization
    \/ GetOrganization
    \/ GetOrganizationsByBuildingAddress
    \/ Deliver

SpecOrganizations == InitOrganizations /\ [][NextOrganizations]_vars

(***************************************************************************)
(* SpecSearch: the subtree search over any activities table, also one      *)
(* whose parent_id links were written into the store directly and form a   *)
(* cycle; two organizations are linked to any of the activities.           *)
(***************************************************************************)
\* 1 + the number of parent_id links above i, followed for at most fuel links
RECURSIVE LevelAlong(_, _, _)
LevelAlong(par, i, fuel) ==
    IF par[i] = None \/ fuel = 0 THEN 1
    ELSE 1 + LevelAlong(par, par[i], fuel - 1)

InjectedActivityTables ==
    UNION { { {ActivityRow(i, par[i], LevelAlong(par, i, MaxActivities)) : i \in S} :
                par \in [S -> {None} \cup S] } :
            S \in SUBSET ActivityIds }

SearchOrganizations ==
    {SeedOrganization, [id |-> 2, name |-> "Meat Co", building_id |-> 1]}

InitSearch ==
    /\ buildings = {SeedBuilding}
    /\ organizations = SearchOrganizations
    /\ phone_numbers = NoPhones
    /\ activities \in InjectedActivityTables
    /\ organization_activities \in
          SUBSET {[organization_id |-> o.id, activity_id |-> a.id] :
                     o \in organizations, a \in activities}
    /\ req = Idle
    /\ resp = NoResponse

NextSearch ==
    \/ SearchOrganizationsByActivity
    \/ Deliver

SpecSearch == InitSearch /\ [][NextSearch]_vars

(***************************************************************************)
(* Claims about the activity hierarchy.                                    *)
(***************************************************************************)

\* C1: every stored Activity has level 1 when its parent_id is null and its
\* parent's level + 1 when parent_id is set, and none has level > 3.
C1_LevelInvariant ==
    \A a \in activities :
        /\ a.parent_id = None => a.level = 1
        /\ a.parent_id # None =>
              \E p \in ActivityById(a.parent_id) : a.level = p.level + 1
        /\ ~(a.level > 3)

\* C2: CreateActivity with a fresh name fails with 400 and inserts nothing when
\* the parent exists with level 3, and succeeds inserting exactly one row when
\* the parent exists with level < 3.
C2_CreateUnderParent ==
    [][ (/\ req'.op = "create_activity"
         /\ req'.name \notin {a.name : a \in activities}
         /\ ActivityById(req'.parent_id) # {})
        => LET parent == CHOOSE p \in ActivityById(req'.parent_id) : TRUE
           IN  /\ parent.level = 3 =>
                     /\ resp'.status = HTTP_400_BAD_REQUEST
                     /\ activities' = activities
               /\ parent.level < 3 =>
                     /\ resp'.status \in {HTTP_200_OK, HTTP_201_CREATED}
                     /\ activities \subseteq activities'
                     /\ Cardinality(activities' \ activities) = 1 ]_vars

(***************************************************************************)
(* Claims about the subtree search.                                        *)
(***************************************************************************)
ParentId(id) ==
    IF id = None \/ ActivityById(id) = {} THEN None
    ELSE (CHOOSE a \in ActivityById(id) : TRUE).parent_id

\* the activity k parent_id links above id (None when there is none)
RECURSIVE AncestorId(_, _)
AncestorId(id, k) == IF k = 0 THEN id ELSE ParentId(AncestorId(id, k - 1))

\* the activity is its own ancestor: its parent_id links lead back to it
OnCycle(id) == \E k \in 1..Cardinality(activities) : AncestorId(id, k) = id

\* id is root_id or one of its descendants
InSubtree(root_id, id) ==
    \E k \in 0..Cardinality(activities) : AncestorId(id, k) = root_id

SearchedRoot == CHOOSE a \in ActivityByName(req.activity_name) : TRUE

SearchResolved ==
    /\ req.op = "search_organizations_by_activity"
    /\ ActivityByName(req.activity_name) # {}

\* every entry was appended by a call level - 1 links below the root, and no
\* entry is more than 3 links below it
WithinThreeLevels(searched) ==
    \A i \in 1..Len(searched) :
        /\ searched[i].level - 1 <= 3
        /\ AncestorId(searched[i].activity.id, searched[i].level - 1) = SearchedRoot.id

VisitedAtMostOnce(searched) ==
    \A i, j \in 1..Len(searched) :
        searched[i].activity.id = searched[j].activity.id => i = j

\* C3: for any stored activity graph, cyclic ones included, the
\* traversal adds each activity at most once and never visits an activity more
\* than 3 links below the root.
C3_VisitedOnceAnyGraph ==
    SearchResolved =>
        /\ VisitedAtMostOnce(ActivitiesToSearch(req.activity_name))
        /\ WithinThreeLevels(ActivitiesToSearch(req.activity_name))

\* the store respects the depth cap: levels follow the parent links and none
\* is above 3
DepthCapRespected ==
    \A a \in activities :
        /\ a.level <= 3
        /\ a.parent_id = None => a.level = 1
        /\ a.parent_id # None =>
              \E p \in activities : p.id = a.parent_id /\ a.level = p.level + 1

\* the organizations with an OrganizationActivity row to the named activity or
\* to one of its descendants
LinkedToSubtree ==
    {o \in organizations :
        \E oa \in organization_activities :
            /\ oa.organization_id = o.id
            /\ InSubtree(SearchedRoot.id, oa.activity_id)}

\* C4, first reading: on a store that respects the depth cap, the search by a name
\* that resolves returns exactly the organizations linked to the activity or a
\* descendant, each once.
C4_ReturnsLinkedOrganizations ==
    (SearchResolved /\ DepthCapRespected) =>
        /\ resp.status = HTTP_200_OK
        /\ \E order \in SetOrders(LinkedToSubtree) : resp.body = RowNames(order)

\* C4: on a store that respects the depth cap, the search by a name that
\* resolves returns exactly the organizations linked to the activity or a
\* descendant, each once and in any order, and answers 404 (not found)
\* instead of an empty list when there is none.
C4_ReturnsLinkedOrNotFound ==
    (SearchResolved /\ DepthCapRespected) =>
        IF LinkedToSubtree = {}
        THEN resp.status = HTTP_404_NOT_FOUND
        ELSE /\ resp.status = HTTP_200_OK
             /\ \E order \in SetOrders(LinkedToSubtree) : resp.body = RowNames(order)

\* Food > Bakery, Bread Co linked to Bakery only, search for Food
C4_Witness ==
    /\ SearchResolved
    /\ req.activity_name = "Food"
    /\ activities = {ActivityRow(1, None, 1), ActivityRow(2, 1, 2)}
    /\ organization_activities = {[organization_id |-> 1, activity_id |-> 2]}
    /\ resp = [status |-> HTTP_200_OK, body |-> <<"Bread Co">>]

(***************************************************************************)
(* Claims about buildings.                                                 *)
(***************************************************************************)

\* C10: CreateBuilding with the address of a stored Building is answered 400
\* (not 500) and leaves the set of Building rows unchanged.
C10_DuplicateAddressConflict ==
    [][ (/\ req'.op = "create_building"
         /\ BuildingByAddress(req'.address) # {})
        => /\ resp'.status = HTTP_400_BAD_REQUEST
           /\ buildings' = buildings ]_vars

(***************************************************************************)
(* Claims about organizations.                                             *)
(***************************************************************************)
AssociationsAfter(org_id) ==
    {oa \in organization_activities' : oa.organization_id = org_id}

\* the pairs (org_id, a) for the ids a of the list that resolve to an Activity
ResolvedPairs(org_id, ids) ==
    {[organization_id |-> org_id, activity_id |-> ids[i]] :
        i \in {k \in 1..Len(ids) : ActivityById(ids[k]) # {}}}

\* C5: CreateOrganization is atomic: after the call either the Organization
\* row, all supplied phone numbers and all resolvable associations are stored,
\* or (if any step failed) none of them is stored.
C5_CreateOrganizationAtomic ==
    [][ req'.op = "create_organization"
        => LET created == organizations' \ organizations
           IN  /\ resp'.status # HTTP_201_CREATED => created = {}
               /\ \/ /\ created = {}
                     /\ phone_numbers' = phone_numbers
                     /\ organization_activities' = organization_activities
                  \/ \E o \in created :
                        /\ created = {o}
                        /\ Len(phone_numbers'[o.id]) = Len(req'.phone_numbers)
                        /\ AssociationsAfter(o.id) = ResolvedPairs(o.id, req'.activity_ids) ]_vars

\* C6: DeleteOrganization on an existing organization, with or without phone
\* numbers and associations, succeeds; afterwards no PhoneNumber row and no
\* OrganizationActivity row references its id, and buildings and activities
\* are unchanged.
C6_DeleteOrganizationCascade ==
    [][ (/\ req'.op = "delete_organization"
         /\ OrganizationById(req'.org_id) # {})
        => /\ resp'.status = HTTP_200_OK
           /\ OrganizationById(req'.org_id) \cap organizations' = {}
           /\ phone_numbers'[req'.org_id] = <<>>
           /\ AssociationsAfter(req'.org_id) = {}
           /\ buildings' = buildings
           /\ activities' = activities ]_vars

\* the list L of a payload as it is meant to be stored: every number that is
\* a phone number in its E.164 form
AsSupplied(L) ==
    [i \in 1..Len(L) |-> IF Parseable(L[i]) THEN FormatE164(L[i]) ELSE L[i]]

\* C7: UpdateOrganization with a non-null phone_numbers list L (and nothing
\* else in the payload) on a stored organization leaves its stored phone
\* numbers equal to exactly L, the empty list when L = [].
C7_ReplacePhoneNumbers ==
    [][ (/\ req'.op = "update_organization"
         /\ OrganizationById(req'.org_id) # {}
         /\ req'.name = NoString
         /\ req'.building_id = None
         /\ ~req'.activity_ids.given
         /\ req'.phone_numbers.given)
        => /\ resp'.status = HTTP_200_OK
           /\ phone_numbers'[req'.org_id] = AsSupplied(req'.phone_numbers.items) ]_vars

\* C8: replacing the activity_ids of a stored organization never fails, and
\* leaves the organization's OrganizationActivity rows exactly the pairs
\* (org, a) for the ids a that resolve to an Activity.
C8_ReplaceActivities ==
    [][ (/\ req'.op = "update_organization"
         /\ OrganizationById(req'.org_id) # {}
         /\ req'.name = NoString
         /\ req'.building_id = None
         /\ ~req'.phone_numbers.given
         /\ req'.activity_ids.given)
        => /\ resp'.status = HTTP_200_OK
           /\ AssociationsAfter(req'.org_id)
                 = ResolvedPairs(req'.org_id, req'.activity_ids.items) ]_vars

\* C9: a successful UpdateOrganization leaves every field whose payload field
\* is null as it was (name, building_id, phone numbers, associations), and
\* changes no other organization, no building and no activity.
C9_PartialUpdateFrame ==
    [][ (/\ req'.op = "update_organization"
         /\ resp'.status = HTTP_200_OK)
        => LET id == req'.org_id
               before == CHOOSE o \in OrganizationById(id) : TRUE
               after == CHOOSE o \in {x \in organizations' : x.id = id} : TRUE
           IN  /\ OrganizationById(id) # {}
               /\ {x \in organizations' : x.id = id} # {}
               /\ req'.name = NoString => after.name = before.name
               /\ req'.building_id = None => after.building_id = before.building_id
               /\ ~req'.phone_numbers.given => phone_numbers'[id] = phone_numbers[id]
               /\ ~req'.activity_ids.given => AssociationsAfter(id) = AssociationsOf(id)
               /\ organizations' \ {after} = organizations \ {before}
               /\ \A other \in OrganizationIds \ {id} :
                     /\ phone_numbers'[other] = phone_numbers[other]
                     /\ AssociationsAfter(other) = AssociationsOf(other)
               /\ buildings' = buildings
               /\ activities' = activities ]_vars

\* a successful update carrying only phone numbers, of an organization that has
\* associations, beside another organization that has phone numbers
C9_Witness ==
    /\ req.op = "update_organization"
    /\ resp.status = HTTP_200_OK
    /\ req.name = NoString
    /\ req.building_id = None
    /\ req.phone_numbers.given
    /\ ~req.activity_ids.given
    /\ AssociationsOf(req.org_id) # {}
    /\ \E other \in organizations :
          other.id # req.org_id /\ phone_numbers[other.id] # <<>>

(***************************************************************************)
(* Claims about names, parents and error outcomes.                         *)
(***************************************************************************)

\* C11: in every state reachable by CreateOrganization, UpdateOrganization and
\* DeleteOrganization calls, no two stored organizations have the same name.
C11_UniqueOrganizationNames ==
    \A o1, o2 \in organizations : o1.name = o2.name => o1 = o2

\* C12: CreateActivity with a non-null parent_id that matches no stored
\* Activity is answered with the "parent not found" error (a 400 or 404, not the
\* 500 of an unknown error) and inserts no Activity row.
C12_ParentNotFound ==
    [][ (/\ req'.op = "create_activity"
         /\ req'.parent_id # None
         /\ ActivityById(req'.parent_id) = {})
        => /\ resp'.status \in {HTTP_400_BAD_REQUEST, HTTP_404_NOT_FOUND}
           /\ activities' = activities ]_vars

\* C13: the lookup by building address answers 404 when no Building has
\* exactly that address and when the Building has no Organization; otherwise
\* it returns exactly the names of the organizations of that building.
C13_ByBuildingAddress ==
    req.op = "get_organizations_by_building_address" =>
        LET matching == {b \in buildings : b.address = req.address}
            housed == {o \in organizations :
                          \E b \in matching : o.building_id = b.id}
        IN  IF matching = {} \/ housed = {}
            THEN resp.status = HTTP_404_NOT_FOUND
            ELSE /\ resp.status = HTTP_200_OK
                 /\ \E order \in SetOrders(housed) : resp.body = RowNames(order)

\* the address of a stored building that houses no organization, while the
\* other building houses one: answered 404
C13_Witness ==
    /\ req.op = "get_organizations_by_building_address"
    /\ \E b \in buildings :
          /\ b.address = req.address
          /\ \A o \in organizations : o.building_id # b.id
    /\ organizations # {}
    /\ resp.status = HTTP_404_NOT_FOUND

\* the request names, by id, a row that is not stored
MissingRowAddressed(r) ==
    \/ r.op \in {"update_organization", "delete_organization"}
          /\ OrganizationById(r.org_id) = {}
    \/ r.op \in {"update_building", "delete_building"}
          /\ BuildingById(r.building_id) = {}
    \/ r.op = "delete_activity" /\ ActivityById(r.activity_id) = {}

\* C14: UpdateOrganization, DeleteOrganization, UpdateBuilding, DeleteBuilding
\* and DeleteActivity called with an id that matches no stored row answer 404
\* (not 400 or 500) and leave the store unchanged.
C14_NotFound ==
    [][ (req.op = "idle" /\ req'.op # "idle" /\ MissingRowAddressed(req'))
        => /\ resp'.status = HTTP_404_NOT_FOUND
           /\ store' = store ]_vars

(***************************************************************************)
(* SpecUnkeyed: the mutating routes called by a client whose X-API-Key     *)
(* header is not the configured key.  FastAPI runs the dependencies a      *)
(* route declares before its handler; a route that declares none is        *)
(* served whatever the header.                                             *)
(***************************************************************************)
HTTP_401_UNAUTHORIZED == 401

API_KEY == "configured key"
OtherKey == "another key"

\* verify_api_key: raises HTTPException(401) unless the header is API_KEY
verify_api_key(x_api_key) == x_api_key = API_KEY

\* the mutating routes declared with dependencies=[Depends(verify_api_key)]
KeyProtected == {"create_activity", "create_building", "create_organization"}

Dispatch(op, x_api_key, handler) ==
    IF op \in KeyProtected /\ ~verify_api_key(x_api_key)
    THEN /\ req' = [op |-> op]
         /\ resp' = [status |-> HTTP_401_UNAUTHORIZED, body |-> <<>>]
         /\ UNCHANGED store
    ELSE handler

UnkeyedCreateActivity ==
    /\ req.op = "idle"
    /\ \E app \in Apps, name \in ActivityNameInputs, parent_id \in {None} \cup ActivityIds :
          Dispatch("create_activity", OtherKey, create_activity(app, name, parent_id))

UnkeyedDeleteActivity ==
    /\ req.op = "idle"
    /\ \E app \in Apps, activity_id \in ActivityIds :
          Dispatch("delete_activity", OtherKey, delete_activity(app, activity_id))

UnkeyedCreateBuilding ==
    /\ req.op = "idle"
    /\ \E address \in AddressInputs :
          Dispatch("create_building", OtherKey, create_building(address))

UnkeyedUpdateBuilding ==
    /\ req.op = "idle"
    /\ \E building_id \in BuildingIds, address \in AddressInputs :
          Dispatch("update_building", OtherKey, update_building(building_id, address))

UnkeyedDeleteBuilding ==
    /\ req.op = "idle"
    /\ \E building_id \in BuildingIds :
          Dispatch("delete_building", OtherKey, delete_building(building_id))

UnkeyedCreateOrganization ==
    /\ req.op = "idle"
    /\ \E name \in OrganizationNames, building_id \in BuildingIdInputs :
          Dispatch("create_organization", OtherKey,
                   create_organization(name, building_id, <<>>, <<>>, TRUE))

UnkeyedUpdateOrganization ==
    /\ req.op = "idle"
    /\ \E org_id \in OrganizationIds,
          name \in OrganizationNames \cup {NoString},
          building_id \in BuildingIdInputs \cup {None},
          phones \in {Some(l) : l \in PhoneLists} \cup {NoList},
          ids \in {Some(l) : l \in ActivityIdLists} \cup {NoList} :
          \E bind_ok \in BindOutcomes(NewPhoneNumbers(phones.items)) :
             Dispatch("update_organization", OtherKey,
                      update_organization(org_id, name, building_id, phones, ids, bind_ok))

UnkeyedDeleteOrganization ==
    /\ req.op = "idle"
    /\ \E org_id \in OrganizationIds :
          Dispatch("delete_organization", OtherKey, delete_organization(org_id))

InitUnkeyed ==
    /\ buildings = {SeedBuilding, [id |-> 2, address |-> "Mira 2"]}
    /\ organizations \in SUBSET {SeedOrganization}
    /\ phone_numbers = NoPhones
    /\ activities \in {{}, {ActivityRow(1, None, 1)}}
    /\ organization_activities = {}
    /\ req = Idle
    /\ resp = NoResponse

NextUnkeyed ==
    \/ UnkeyedCreateActivity
    \/ UnkeyedDeleteActivity
    \/ UnkeyedCreateBuilding
    \/ UnkeyedUpdateBuilding
    \/ UnkeyedDeleteBuilding
    \/ UnkeyedCreateOrganization
    \/ UnkeyedUpdateOrganization
    \/ UnkeyedDeleteOrganization
    \/ Deliver

SpecUnkeyed == InitUnkeyed /\ [][NextUnkeyed]_vars

\* C15: a request whose X-API-Key is not the configured key is answered 401
\* and never changes the store, on every mutating route.
C15_WrongKeyRejected ==
    [][ (req.op = "idle" /\ req'.op # "idle")
        => /\ resp'.status = HTTP_401_UNAUTHORIZED
           /\ store' = store ]_vars

(***************************************************************************)
(* SpecTraversal: the subtree search call by call.  While the handler runs *)
(* the request carries the pending calls of find_subactivities (the call   *)
(* being made first) and the list activities_to_search built so far.       *)
(***************************************************************************)
MaxVisits == 20   \* calls of find_subactivities followed within one search

\* the recursion goes on whatever the level
Descends_Always(level) == TRUE

\* if level <= 3: for sub_activity in sub_activities_list: ...
Descends(level) == level <= 3

\* root_activity = ...first(); if root_activity: await find_subactivities(root_activity, 1)
BeginSearch ==
    /\ req.op = "idle"
    /\ \E activity_name \in ActivityNameInputs :
          req' = [op |-> "find_subactivities",
                  activity_name |-> activity_name,
                  calls |-> IF ActivityByName(activity_name) = {} THEN <<>>
                            ELSE <<[activity |-> CHOOSE a \in ActivityByName(activity_name) : TRUE,
                                    level |-> 1]>>,
                  activities_to_search |-> <<>>]
    /\ resp' = NoResponse
    /\ UNCHANGED store

\* one call find_subactivities(activity, level): append, query the
\* sub-activities, and call on each of them with level + 1 when level <= 3
FindSubactivitiesCall ==
    /\ req.op = "find_subactivities"
    /\ req.calls # <<>>
    /\ Len(req.activities_to_search) < MaxVisits
    /\ LET call == Head(req.calls)
           sub_activities_list == ScalarsAll(SubActivities(call.activity))
           inner == [i \in 1..Len(sub_activities_list) |->
                        [activity |-> sub_activities_list[i], level |-> call.level + 1]]
       IN  req' = [req EXCEPT
                      !.activities_to_search = Append(@, call),
                      !.calls = IF Descends(call.level)
                                THEN inner \o Tail(req.calls)
                                ELSE Tail(req.calls)]
    /\ resp' = NoResponse
    /\ UNCHANGED store

\* the traversal has returned: the rest of the handler, over the list built
EndSearch ==
    /\ req.op = "find_subactivities"
    /\ req.calls = <<>>
    /\ LET searched == req.activities_to_search
           associations ==
               {oa \in organization_activities :
                   \E i \in 1..Len(searched) : searched[i].activity.id = oa.activity_id}
           found == {o \in organizations :
                        \E oa \in associations : oa.organization_id = o.id}
       IN  /\ req' = [op |-> "search_organizations_by_activity",
                      activity_name |-> req.activity_name]
           /\ IF \E oa \in associations : OrganizationById(oa.organization_id) = {}
              THEN resp' = Response(Raise(HTTP_500_INTERNAL_SERVER_ERROR))
              ELSE IF found = {}
              THEN resp' = Response(Return(HTTP_404_NOT_FOUND, <<>>))
              ELSE \E order \in SetOrders(found) :
                      resp' = Response(Return(HTTP_200_OK, RowNames(order)))
    /\ UNCHANGED store

InitTraversal ==
    /\ buildings = {SeedBuilding}
    /\ organizations = SearchOrganizations
    /\ phone_numbers = NoPhones
    /\ activities \in InjectedActivityTables
    /\ organization_activities =
          {[organization_id |-> 1, activity_id |-> a.id] : a \in activities}
    /\ req = Idle
    /\ resp = NoResponse

NextTraversal ==
    \/ BeginSearch
    \/ FindSubactivitiesCall
    \/ EndSearch
    \/ Deliver

\* the handler is a coroutine of the event loop: a call that can be made is made
SpecTraversal ==
    /\ InitTraversal
    /\ [][NextTraversal]_vars
    /\ WF_vars(FindSubactivitiesCall)
    /\ WF_vars(EndSearch)

\* C16: the subtree search terminates for every store state, also when the
\* parent_id links form a cycle: a search that has begun is answered.
C16_SearchTerminates ==
    (req.op = "find_subactivities") ~> (req.op = "search_organizations_by_activity")

\* a traversal that has returned from a root on a parent_id cycle, cut by the
\* level counter, with the list the recursion builds
C16_Witness ==
    /\ req.op = "find_subactivities"
    /\ req.calls = <<>>
    /\ ActivityByName(req.activity_name) # {}
    /\ OnCycle((CHOOSE a \in ActivityByName(req.activity_name) : TRUE).id)
    /\ \E i \in 1..Len(req.activities_to_search) : req.activities_to_search[i].level = 4
    /\ req.activities_to_search = ActivitiesToSearch(req.activity_name)

(***************************************************************************)
(* Claims about failed updates and deletes.                                *)
(***************************************************************************)

\* C17: if UpdateOrganization fails at any step (organization missing,
\* building_id not found after the name was assigned, store error while
\* replacing phone numbers or associations), the name, building_id, phone
\* numbers and associations of every organization are as before the call.
C17_FailedUpdateRollsBack ==
    [][ (/\ req'.op = "update_organization"
         /\ resp'.status # HTTP_200_OK)
        => /\ organizations' = organizations
           /\ phone_numbers' = phone_numbers
           /\ organization_activities' = organization_activities ]_vars

\* an update carrying a new name and a building_id that is not stored, of an
\* organization that has phone numbers: it failed and the old name is stored
C17_Witness ==
    /\ req.op = "update_organization"
    /\ resp.status = HTTP_500_INTERNAL_SERVER_ERROR
    /\ req.name # NoString
    /\ req.building_id # None
    /\ BuildingById(req.building_id) = {}
    /\ \E o \in OrganizationById(req.org_id) :
          /\ o.name # req.name
          /\ phone_numbers[o.id] # <<>>

\* C18: DeleteActivity on a stored activity, with or without child activities
\* and organization associations, removes exactly that Activity row and leaves
\* every other Activity row (children included) unchanged.
C18_DeleteExactlyThatActivity ==
    [][ (/\ req'.op = "delete_activity"
         /\ ActivityById(req'.activity_id) # {})
        => activities' = activities \ ActivityById(req'.activity_id) ]_vars

(***************************************************************************)
(* Concurrent requests.  Each request runs in its own session and          *)
(* transaction; a handler gives way at every await, so the store            *)
(* operations of two requests interleave.  While they run, the request     *)
(* variable carries, per client, the payload, the place its handler has    *)
(* reached and what it has read.                                           *)
(***************************************************************************)
Clients == {1, 2}

\* a statement sees the rows committed before it (the engine's default
\* isolation; src/database.py sets the engine up)
CommittedRows(table) == table

AllAnswered == \A c \in Clients : req.sessions[c].at = "answered"

\* both answers have been sent
DeliverAll ==
    /\ req.op \in {"create_organization x2", "update_organization x2"}
    /\ AllAnswered
    /\ req' = Idle
    /\ UNCHANGED <<resp, store>>

(***************************************************************************)
(* SpecConcurrentCreates: two create_organization requests at once.        *)
(***************************************************************************)
BeginCreates ==
    /\ req.op = "idle"
    /\ NextId(organizations) + 1 <= MaxOrganizations
    /\ \E names \in [Clients -> OrganizationNames],
          building_ids \in [Clients -> BuildingIdInputs] :
          req' = [op |-> "create_organization x2",
                  sessions |-> [c \in Clients |->
                                  [at |-> "existing_organization_query",
                                   name |-> names[c],
                                   building_id |-> building_ids[c],
                                   status |-> None]]]
    /\ UNCHANGED <<resp, store>>

\* the two queries before the insert: by name, then the building
CheckBeforeCreate(c) ==
    /\ req.op = "create_organization x2"
    /\ req.sessions[c].at = "existing_organization_query"
    /\ LET session == req.sessions[c]
           existing_organization ==
               {o \in CommittedRows(organizations) : o.name = session.name}
           building ==
               {b \in CommittedRows(buildings) : b.id = session.building_id}
       IN  req' = [req EXCEPT !.sessions[c] =
                      IF existing_organization # {}
                      THEN [@ EXCEPT !.at = "answered",
                                     !.status = Response(Raise(HTTP_400_BAD_REQUEST)).status]
                      ELSE IF building = {}
                      THEN [@ EXCEPT !.at = "answered", !.status = HTTP_404_NOT_FOUND]
                      ELSE [@ EXCEPT !.at = "commit"]]
    /\ UNCHANGED <<resp, store>>

\* db.add(new_organization); await db.commit(): organizations.name carries no
\* unique constraint, so the insert is accepted whatever is stored by now.  The
\* payloads carry no phone numbers and no activity ids: the second commit of
\* the handler writes nothing.
CommitCreate(c) ==
    /\ req.op = "create_organization x2"
    /\ req.sessions[c].at = "commit"
    /\ organizations' = organizations \cup
          {[id |-> NextId(organizations),
            name |-> req.sessions[c].name,
            building_id |-> req.sessions[c].building_id]}
    /\ req' = [req EXCEPT !.sessions[c] =
                  [@ EXCEPT !.at = "answered", !.status = HTTP_201_CREATED]]
    /\ UNCHANGED <<resp, buildings, phone_numbers, activities, organization_activities>>

CheckBeforeCreateSome == \E c \in Clients : CheckBeforeCreate(c)
CommitCreateSome == \E c \in Clients : CommitCreate(c)

InitConcurrentCreates ==
    /\ buildings = {SeedBuilding, [id |-> 2, address |-> "Mira 2"]}
    /\ organizations = {}
    /\ phone_numbers = NoPhones
    /\ activities = {}
    /\ organization_activities = {}
    /\ req = Idle
    /\ resp = NoResponse

NextConcurrentCreates ==
    \/ BeginCreates
    \/ CheckBeforeCreateSome
    \/ CommitCreateSome
    \/ DeliverAll

SpecConcurrentCreates == InitConcurrentCreates /\ [][NextConcurrentCreates]_vars

\* C20: two concurrent CreateOrganization calls with the same name never
\* result in two stored organizations with that name.
C20_NoDuplicateFromConcurrentCreates ==
    (/\ req.op = "create_organization x2"
     /\ req.sessions[1].name = req.sessions[2].name)
        => Cardinality(OrganizationByName(req.sessions[1].name)) <= 1

(***************************************************************************)
(* SpecConcurrentUpdates: two update_organization requests at once on the  *)
(* seeded organization, each carrying a phone_numbers list only.  The      *)
(* request variable also counts the commits that replaced phone rows, so   *)
(* that a session knows whether the rows it loaded are still the stored    *)
(* ones.                                                                   *)
(***************************************************************************)
SecondE164Phone == "+79997654321"
ValidPhoneLists == ListsUpTo({E164Phone, SecondE164Phone}, MaxPhones)

BeginUpdates ==
    /\ req.op = "idle"
    /\ \E lists \in [Clients -> ValidPhoneLists] :
          req' = [op |-> "update_organization x2",
                  org_id |-> SeedOrganization.id,
                  commits |-> 0,
                  sessions |-> [c \in Clients |->
                                  [at |-> "existing_phone_numbers",
                                   phone_numbers |-> lists[c],
                                   loaded_at |-> None,
                                   status |-> None]]]
    /\ UNCHANGED <<resp, store>>

\* select(PhoneNumber).where(PhoneNumber.organization_id == org_id): the rows
\* the session will delete; the new rows are added to the session
LoadPhoneNumbers(c) ==
    /\ req.op = "update_organization x2"
    /\ req.sessions[c].at = "existing_phone_numbers"
    /\ req' = [req EXCEPT !.sessions[c] =
                  [@ EXCEPT !.at = "commit", !.loaded_at = req.commits]]
    /\ UNCHANGED <<resp, store>>

\* await db.commit(): DELETE of the loaded rows by primary key, INSERT of the
\* new ones.  A loaded row that another transaction deleted meanwhile matches
\* no row (the unit of work only warns about it); rows the session never
\* loaded are not touched.
CommitUpdate(c) ==
    /\ req.op = "update_organization x2"
    /\ req.sessions[c].at = "commit"
    /\ LET session == req.sessions[c]
           untouched == IF session.loaded_at = req.commits
                        THEN <<>>
                        ELSE CommittedRows(phone_numbers)[req.org_id]
       IN  phone_numbers' =
              [phone_numbers EXCEPT
                  ![req.org_id] = untouched \o NewPhoneNumbers(session.phone_numbers)]
    /\ req' = [req EXCEPT !.commits = @ + 1,
                          !.sessions[c] = [@ EXCEPT !.at = "answered",
                                                    !.status = HTTP_200_OK]]
    /\ UNCHANGED <<resp, buildings, organizations, activities, organization_activities>>

LoadPhoneNumbersSome == \E c \in Clients : LoadPhoneNumbers(c)
CommitUpdateSome == \E c \in Clients : CommitUpdate(c)

InitConcurrentUpdates ==
    /\ buildings = {SeedBuilding}
    /\ organizations = {SeedOrganization}
    /\ phone_numbers \in {[NoPhones EXCEPT ![SeedOrganization.id] = l] : l \in ValidPhoneLists}
    /\ activities = {}
    /\ organization_activities = {}
    /\ req = Idle
    /\ resp = NoResponse

NextConcurrentUpdates ==
    \/ BeginUpdates
    \/ LoadPhoneNumbersSome
    \/ CommitUpdateSome
    \/ DeliverAll

SpecConcurrentUpdates == InitConcurrentUpdates /\ [][NextConcurrentUpdates]_vars

\* C19: two concurrent UpdateOrganization calls on one organization with
\* phone_numbers lists L1 and L2, both succeeding, leave its stored phone
\* numbers equal to exactly L1 or exactly L2, never a mixture or union.
C19_LastWriterWins ==
    (/\ req.op = "update_organization x2"
     /\ \A c \in Clients : req.sessions[c].status = HTTP_200_OK)
        => \E c \in Clients :
              phone_numbers[req.org_id] = req.sessions[c].phone_numbers

(***************************************************************************)
(* SpecHousing: the building routes together with the organization routes, *)
(* the organization payloads carrying a name and a building only.          *)
(***************************************************************************)
HousingCreateOrganization ==
    /\ req.op = "idle"
    /\ NextId(organizations) <= MaxOrganizations
    /\ \E name \in OrganizationNames, building_id \in BuildingIdInputs :
          create_organization(name, building_id, <<>>, <<>>, TRUE)

HousingUpdateOrganization ==
    /\ req.op = "idle"
    /\ \E org_id \in OrganizationIds,
          name \in OrganizationNames \cup {NoString},
          building_id \in BuildingIdInputs \cup {None} :
          update_organization(org_id, name, building_id, NoList, NoList, TRUE)

InitHousing ==
    /\ buildings = {SeedBuilding}
    /\ organizations \in SUBSET {SeedOrganization}
    /\ phone_numbers = NoPhones
    /\ activities = {}
    /\ organization_activities = {}
    /\ req = Idle
    /\ resp = NoResponse

NextHousing ==
    \/ CreateBuilding
    \/ UpdateBuilding
    \/ DeleteBuilding
    \/ HousingCreateOrganization
    \/ HousingUpdateOrganization
    \/ DeleteOrganization
    \/ Deliver

SpecHousing == InitHousing /\ [][NextHousing]_vars

(***************************************************************************)
(* Claims about references between tables.                                 *)
(***************************************************************************)

\* C21: in every state reachable by building and organization create, update
\* and delete calls, every stored Organization's building_id is the id of a
\* stored Building.
C21_BuildingReferences ==
    \A o \in organizations : \E b \in buildings : b.id = o.building_id

\* DeleteBuilding was called on a building that houses an organization: it was
\* refused, and the building is still stored
C21_Witness ==
    /\ req.op = "delete_building"
    /\ \E o \in organizations : o.building_id = req.building_id
    /\ resp.status = HTTP_500_INTERNAL_SERVER_ERROR
    /\ BuildingById(req.building_id) # {}

(***************************************************************************)
(* SpecLinking: the activity routes together with the organization routes  *)
(* over a seeded taxonomy, the organization payloads carrying a name and   *)
(* activity ids only.                                                      *)
(***************************************************************************)
LinkingCreateOrganization ==
    /\ req.op = "idle"
    /\ NextId(organizations) <= MaxOrganizations
    /\ \E name \in OrganizationNames, ids \in ActivityIdLists :
          create_organization(name, SeedBuilding.id, <<>>, ids, TRUE)

LinkingUpdateOrganization ==
    /\ req.op = "idle"
    /\ \E org_id \in OrganizationIds,
          ids \in {Some(l) : l \in ActivityIdLists} \cup {NoList} :
          update_organization(org_id, NoString, None, NoList, ids, TRUE)

InitLinking ==
    /\ buildings = {SeedBuilding}
    /\ organizations \in SUBSET {SeedOrganization}
    /\ phone_numbers = NoPhones
    /\ activities = {ActivityRow(1, None, 1), ActivityRow(2, 1, 2)}
    /\ organization_activities = {}
    /\ req = Idle
    /\ resp = NoResponse

NextLinking ==
    \/ CreateActivity
    \/ DeleteActivity
    \/ LinkingCreateOrganization
    \/ LinkingUpdateOrganization
    \/ DeleteOrganization
    \/ Deliver

SpecLinking == InitLinking /\ [][NextLinking]_vars

\* C22: in every state reachable by API calls, every OrganizationActivity row
\* references a stored Organization and a stored Activity.
C22_AssociationReferences ==
    \A oa \in organization_activities :
        /\ \E o \in organizations : o.id = oa.organization_id
        /\ \E a \in activities : a.id = oa.activity_id

\* DeleteActivity was called on an activity an organization is linked to: it
\* was refused, and the activity is still stored
C22_Witness ==
    /\ req.op = "delete_activity"
    /\ \E oa \in organization_activities : oa.activity_id = req.activity_id
    /\ resp.status = HTTP_500_INTERNAL_SERVER_ERROR
    /\ ActivityById(req.activity_id) # {}

\* C23: in every state reachable through CreateActivity and DeleteActivity
\* alone, the parent_id relation over the stored activities is acyclic: no
\* activity is its own ancestor.
C23_Acyclic ==
    \A a \in activities : ~OnCycle(a.id)

\* a parent activity has been deleted and an activity that names a parent is
\* still stored
C23_Witness ==
    /\ req.op = "delete_activity"
    /\ resp.status = HTTP_200_OK
    /\ \E a \in activities : a.parent_id # None

====
